---- MODULE Spec2Model ----
(***************************************************************************)
(* Model of scripts/number_analyzer.cpp: the NumberAnalyzer class (parse,  *)
(* the statistics operations, generateReport) and main.                    *)
(*                                                                         *)
(* Strings are sequences of symbols.  A symbol is one character, except    *)
(* "e999", which stands for the four characters of an exponent part that   *)
(* is beyond the range of a double, and "nan", which stands for the three  *)
(* characters that strtod reads as a NaN; the argument strings of the      *)
(* model are the strings over Chars.  A double is an integer (the finite   *)
(* values the model reaches are small integers, which a double holds       *)
(* exactly) or NaN; a quotient a / b of doubles is the pair <<a, b>>.  The *)
(* error string is the sequence of the messages appended to it, and a      *)
(* report is the sequence of its non-blank lines, a line being <<label>>   *)
(* or <<label, value>>.                                                    *)
(*                                                                         *)
(* std::sort with operator< on a range that holds a NaN is undefined (the  *)
(* comparison is no strict weak ordering): the range it leaves is then any *)
(* permutation of its input.  The program is deterministic, so the three   *)
(* functions that sort a copy of the same list get the same order: the     *)
(* variable sorted holds it.                                               *)
(***************************************************************************)
EXTENDS Integers, Sequences, FiniteSets, TLC

MaxLen == 4     \* longest argument string, in symbols
MaxN == 4       \* longest NumberList drawn for the statistics operations

VARIABLES argc, input, pc, ss, number, numbers, errors, sorted,
          stdout, stderr, exitCode, lastCall, ret, report

vars == <<argc, input, pc, ss, number, numbers, errors, sorted,
          stdout, stderr, exitCode, lastCall, ret, report>>

\* the double NaN: a number outside the finite values the model reaches
NaN == 999999999

IsNaN(x) == x = NaN

\* operator< and operator== of double
Less(a, b) == ~IsNaN(a) /\ ~IsNaN(b) /\ a < b

Eq(a, b) == ~IsNaN(a) /\ ~IsNaN(b) /\ a = b

\* a + b, a - b and a / b of double
Add(a, b) == IF IsNaN(a) \/ IsNaN(b) THEN NaN ELSE a + b

Sub(a, b) == IF IsNaN(a) \/ IsNaN(b) THEN NaN ELSE a - b

Div(a, b) == IF IsNaN(a) THEN <<NaN, 1>> ELSE <<a, b>>

Digits == {"1", "2"}
Whitespace == {" "}
Chars == Digits \cup Whitespace \cup {"-", ",", "a", "e999", "nan"}

Strings == UNION {[1..n -> Chars] : n \in 0..MaxLen}

\* the values drawn for the statistics operations
Values == {-1, 0, 1, NaN}

\* the NumberLists drawn: at most MaxN values, at most one of them NaN
NumberLists ==
    {s \in UNION {[1..n -> Values] : n \in 0..MaxN} :
        Cardinality({i \in DOMAIN s : s[i] = NaN}) <= 1}

InvalidMsg(tok) == <<"Invalid number: ", tok>>

OutOfRangeMsg(tok) == <<"Number out of range: ", tok>>

\* the ErrorLogs drawn for the statistics operations
ErrorLogs ==
    { <<>>,
      <<InvalidMsg(<<"a">>), OutOfRangeMsg(<<"1", "e999">>)>> }

(***************************************************************************)
(* parse: getline, trimming, stod.                                         *)
(***************************************************************************)

\* index of the first "," of s, or Len(s) + 1
RECURSIVE DelimPos(_, _)
DelimPos(s, i) ==
    IF i > Len(s) THEN i
    ELSE IF s[i] = "," THEN i
    ELSE DelimPos(s, i + 1)

\* the string getline(ss, number, ',') extracts from a stream holding s
getlineToken(s) == SubSeq(s, 1, DelimPos(s, 1) - 1)

\* what the stream holds after that extraction (the delimiter is consumed)
getlineRest(s) == SubSeq(s, DelimPos(s, 1) + 1, Len(s))

\* getline succeeds unless the stream is already at its end
getlineOk(s) == s # <<>>

\* 1-based index, 0 for npos
RECURSIVE find_first_not_of(_, _)
find_first_not_of(s, i) ==
    IF i > Len(s) THEN 0
    ELSE IF s[i] \notin Whitespace THEN i
    ELSE find_first_not_of(s, i + 1)

RECURSIVE find_last_not_of(_, _)
find_last_not_of(s, i) ==
    IF i < 1 THEN 0
    ELSE IF s[i] \notin Whitespace THEN i
    ELSE find_last_not_of(s, i - 1)

Trim(s) ==
    LET start == find_first_not_of(s, 1)
        end == find_last_not_of(s, Len(s))
    IN IF start # 0 THEN SubSeq(s, start, end) ELSE s

DigitVal(c) == IF c = "1" THEN 1 ELSE 2

\* index after the longest run of digits of s that starts at i
RECURSIVE DigitsEnd(_, _)
DigitsEnd(s, i) ==
    IF i > Len(s) THEN i
    ELSE IF s[i] \in Digits THEN DigitsEnd(s, i + 1)
    ELSE i

RECURSIVE DigitsValue(_, _, _, _)
DigitsValue(s, i, j, acc) ==
    IF i >= j THEN acc
    ELSE DigitsValue(s, i + 1, j, acc * 10 + DigitVal(s[i]))

\* std::stod: skip leading whitespace, an optional sign, the longest numeric
\* prefix ("nan" is one); no such prefix: invalid_argument; result out of
\* range: out_of_range; characters after the prefix are ignored.
stod(s) ==
    LET f == find_first_not_of(s, 1)
        p == IF f = 0 THEN Len(s) + 1 ELSE f
        neg == p <= Len(s) /\ s[p] = "-"
        d == IF neg THEN p + 1 ELSE p
        e == DigitsEnd(s, d)
    IN IF d <= Len(s) /\ s[d] = "nan" THEN [status |-> "ok", value |-> NaN]
       ELSE IF e = d THEN [status |-> "invalid_argument", value |-> 0]
       ELSE IF e <= Len(s) /\ s[e] = "e999"
            THEN [status |-> "out_of_range", value |-> 0]
       ELSE [status |-> "ok",
             value |-> IF neg THEN 0 - DigitsValue(s, d, e, 0)
                       ELSE DigitsValue(s, d, e, 0)]

\* faulty variant: the negation dropped from the return value of parse
parseResult_Negated(nums) == nums = <<>>

\* return value of parse
parseResult(nums) == nums # <<>>

(***************************************************************************)
(* Statistics                                                              *)
(***************************************************************************)

RECURSIVE Insert(_, _)
Insert(x, s) ==
    IF s = <<>> THEN <<x>>
    ELSE IF x < Head(s) THEN <<x>> \o s
    ELSE <<Head(s)>> \o Insert(x, Tail(s))

\* the ascending order of a list without NaN
RECURSIVE sort(_)
sort(s) == IF s = <<>> THEN <<>> ELSE Insert(Head(s), sort(Tail(s)))

HasNaN(s) == \E i \in DOMAIN s : IsNaN(s[i])

Permute(s, p) == [i \in DOMAIN s |-> s[p[i]]]

\* what std::sort(sorted.begin(), sorted.end()) can leave in a copy of s
SortOutcomes(s) ==
    IF HasNaN(s) THEN {Permute(s, p) : p \in Permutations(DOMAIN s)}
    ELSE {sort(s)}

RECURSIVE calculateSum(_)
calculateSum(nums) ==
    IF nums = <<>> THEN 0
    ELSE Add(calculateSum(SubSeq(nums, 1, Len(nums) - 1)), nums[Len(nums)])

calculateAverage(nums) ==
    IF nums = <<>> THEN <<0, 1>>
    ELSE Div(calculateSum(nums), Len(nums))

\* 0-indexed element of a sequence, as the code indexes vectors
At(s, k) == s[k + 1]

\* srt is the sorted copy of nums
calculateMedian(nums, srt) ==
    IF nums = <<>> THEN <<0, 1>>
    ELSE LET size == Len(srt)
         IN IF size % 2 = 0
            THEN Div(Add(At(srt, size \div 2 - 1), At(srt, size \div 2)), 2)
            ELSE Div(At(srt, size \div 2), 1)

RECURSIVE SumSquareDiff(_, _, _)
SumSquareDiff(nums, avg, i) ==
    IF i > Len(nums) THEN 0
    ELSE LET diff == nums[i] * avg[2] - avg[1]    \* (num - avg) * avg[2]
         IN diff * diff + SumSquareDiff(nums, avg, i + 1)

\* sqrt(sumSquareDiff / size): the pair is the radicand
calculateStdDev(nums) ==
    IF nums = <<>> THEN <<"sqrt", 0, 1>>
    ELSE IF HasNaN(nums) THEN <<"sqrt", NaN, 1>>
    ELSE LET avg == calculateAverage(nums)
         IN <<"sqrt", SumSquareDiff(nums, avg, 1), avg[2] * avg[2] * Len(nums)>>

\* the loop of findMode over the sorted copy, i the 0-based index
RECURSIVE ModeScan(_, _, _, _, _)
ModeScan(srt, i, mode, maxCount, currentCount) ==
    IF i >= Len(srt) THEN mode
    ELSE IF Eq(At(srt, i), At(srt, i - 1))
         THEN IF currentCount + 1 > maxCount
              THEN ModeScan(srt, i + 1, At(srt, i), currentCount + 1, currentCount + 1)
              ELSE ModeScan(srt, i + 1, mode, maxCount, currentCount + 1)
         ELSE ModeScan(srt, i + 1, mode, maxCount, 1)

findMode(nums, srt) ==
    IF nums = <<>> THEN 0
    ELSE ModeScan(srt, 1, At(srt, 0), 1, 1)

QuartileIdx(size) == <<size \div 4, size \div 2, (3 * size) \div 4>>

calculateQuartiles(nums, srt) ==
    IF Len(nums) < 4 THEN <<0, 0, 0>>
    ELSE LET idx == QuartileIdx(Len(srt))
         IN <<At(srt, idx[1]), At(srt, idx[2]), At(srt, idx[3])>>

\* std::min_element, std::max_element: a scan from the front
RECURSIVE MinScan(_, _, _)
MinScan(nums, i, smallest) ==
    IF i > Len(nums) THEN smallest
    ELSE MinScan(nums, i + 1, IF Less(nums[i], smallest) THEN nums[i] ELSE smallest)

min_element(nums) == MinScan(nums, 2, nums[1])

RECURSIVE MaxScan(_, _, _)
MaxScan(nums, i, largest) ==
    IF i > Len(nums) THEN largest
    ELSE MaxScan(nums, i + 1, IF Less(largest, nums[i]) THEN nums[i] ELSE largest)

max_element(nums) == MaxScan(nums, 2, nums[1])

\* the loop of generateReport: <<positiveCount, negativeCount, zeroCount>>
RECURSIVE SignCounts(_)
SignCounts(nums) ==
    IF nums = <<>> THEN <<0, 0, 0>>
    ELSE LET c == SignCounts(SubSeq(nums, 1, Len(nums) - 1))
             num == nums[Len(nums)]
         IN IF Less(0, num) THEN <<c[1] + 1, c[2], c[3]>>
            ELSE IF Less(num, 0) THEN <<c[1], c[2] + 1, c[3]>>
            ELSE <<c[1], c[2], c[3] + 1>>

ReportHeader == << <<"Number Analysis Report">>, <<"======================">> >>

ReportWarnings(errs) ==
    IF errs # <<>> THEN << <<"Warnings/Errors:">> >> \o errs ELSE <<>>

ReportStatistics(nums, srt) ==
    LET minVal == min_element(nums)
        maxVal == max_element(nums)
        quartiles == calculateQuartiles(nums, srt)
        signs == SignCounts(nums)
    IN << <<"Basic Statistics:">>,
          <<"  Count: ", Len(nums)>>,
          <<"  Sum: ", calculateSum(nums)>>,
          <<"  Average: ", calculateAverage(nums)>>,
          <<"  Median: ", calculateMedian(nums, srt)>>,
          <<"  Mode: ", findMode(nums, srt)>>,
          <<"Range Statistics:">>,
          <<"  Minimum: ", minVal>>,
          <<"  Maximum: ", maxVal>>,
          <<"  Range: ", Sub(maxVal, minVal)>>,
          <<"Dispersion Statistics:">>,
          <<"  Standard Deviation: ", calculateStdDev(nums)>>,
          <<"  Variance: ", <<"mul", calculateStdDev(nums), calculateStdDev(nums)>> >>,
          <<"Quartile Analysis:">>,
          <<"  Q1 (25th percentile): ", quartiles[1]>>,
          <<"  Q2 (50th percentile): ", quartiles[2]>>,
          <<"  Q3 (75th percentile): ", quartiles[3]>>,
          <<"  IQR: ", Sub(quartiles[3], quartiles[1])>>,
          <<"Sign Analysis:">>,
          <<"  Positive: ", signs[1]>>,
          <<"  Negative: ", signs[2]>>,
          <<"  Zero: ", signs[3]>> >>

\* faulty variant: the test for an empty list comes before the warnings
generateReport_EarlyReturn(nums, errs, srt) ==
    ReportHeader \o
    (IF nums = <<>> THEN << <<"Error: No valid numbers parsed">> >>
     ELSE ReportWarnings(errs) \o ReportStatistics(nums, srt))

generateReport(nums, errs, srt) ==
    ReportHeader \o ReportWarnings(errs) \o
    (IF nums = <<>> THEN << <<"Error: No valid numbers parsed">> >>
     ELSE ReportStatistics(nums, srt))

(***************************************************************************)
(* main                                                                    *)
(***************************************************************************)

Usage == <<"Usage: number_analyzer '<comma-separated-numbers>'">>

Init ==
    /\ argc \in 1..3
    /\ input \in (IF argc < 2 THEN {<<>>} ELSE Strings)
    /\ pc = "main"
    /\ ss = <<>>
    /\ number = <<>>
    /\ numbers = <<>>
    /\ errors = <<>>
    /\ sorted = <<>>
    /\ stdout = <<>>
    /\ stderr = <<>>
    /\ exitCode = -1
    /\ lastCall = "none"
    /\ ret = <<>>
    /\ report = <<>>

\* argc < 2: usage message, return 1
MainUsage ==
    /\ pc = "main"
    /\ argc < 2
    /\ stderr' = <<Usage>>
    /\ exitCode' = 1
    /\ pc' = "exit"
    /\ UNCHANGED <<argc, input, ss, number, numbers, errors, sorted, stdout,
                   lastCall, ret, report>>

\* input = argv[1]; analyzer.parse(input) starts: stringstream ss(input)
MainParse ==
    /\ pc = "main"
    /\ argc >= 2
    /\ ss' = input
    /\ pc' = "parse"
    /\ UNCHANGED <<argc, input, number, numbers, errors, sorted, stdout,
                   stderr, exitCode, lastCall, ret, report>>

\* one iteration of the while loop of parse
ParseToken ==
    /\ pc = "parse"
    /\ getlineOk(ss)
    /\ LET tok == Trim(getlineToken(ss))
           r == stod(tok)
       IN /\ number' = tok
          /\ numbers' = IF r.status = "ok" THEN Append(numbers, r.value)
                        ELSE numbers
          /\ errors' = IF r.status = "invalid_argument"
                       THEN Append(errors, InvalidMsg(tok))
                       ELSE IF r.status = "out_of_range"
                       THEN Append(errors, OutOfRangeMsg(tok))
                       ELSE errors
    /\ ss' = getlineRest(ss)
    /\ UNCHANGED <<argc, input, pc, sorted, stdout, stderr, exitCode,
                   lastCall, ret, report>>

\* getline fails, parse returns false: main prints the errors, returns 1
MainParseError ==
    /\ pc = "parse"
    /\ ~getlineOk(ss)
    /\ ~parseResult(numbers)
    /\ stderr' = << <<"Error parsing input: ">> >> \o errors
    /\ exitCode' = 1
    /\ pc' = "exit"
    /\ UNCHANGED <<argc, input, ss, number, numbers, errors, sorted, stdout,
                   lastCall, ret, report>>

\* getline fails, parse returns true: main prints the report, returns 0
MainReport ==
    /\ pc = "parse"
    /\ ~getlineOk(ss)
    /\ parseResult(numbers)
    /\ sorted' \in SortOutcomes(numbers)
    /\ report' = generateReport(numbers, errors, sorted')
    /\ stdout' = report'
    /\ lastCall' = "generateReport"
    /\ ret' = report'
    /\ exitCode' = 0
    /\ pc' = "exit"
    /\ UNCHANGED <<argc, input, ss, number, numbers, errors, stderr>>

Next ==
    \/ MainUsage
    \/ MainParse
    \/ ParseToken
    \/ MainParseError
    \/ MainReport

Spec == Init /\ [][Next]_vars

(***************************************************************************)
(* The analyzer object after parse, under any sequence of calls of its     *)
(* statistics operations and of generateReport.                            *)
(***************************************************************************)

InitStats ==
    /\ argc = 2
    /\ input = <<>>
    /\ pc = "object"
    /\ ss = <<>>
    /\ number = <<>>
    /\ numbers \in NumberLists
    /\ errors \in ErrorLogs
    /\ sorted \in SortOutcomes(numbers)
    /\ stdout = <<>>
    /\ stderr = <<>>
    /\ exitCode = -1
    /\ lastCall = "none"
    /\ ret = <<>>
    /\ report = <<>>

Frame == <<argc, input, pc, ss, number, sorted, stdout, stderr, exitCode>>

CalculateSum ==
    /\ pc = "object"
    /\ lastCall' = "calculateSum"
    /\ ret' = calculateSum(numbers)
    /\ UNCHANGED <<Frame, numbers, errors, report>>

CalculateAverage ==
    /\ pc = "object"
    /\ lastCall' = "calculateAverage"
    /\ ret' = calculateAverage(numbers)
    /\ UNCHANGED <<Frame, numbers, errors, report>>

\* faulty variant: the list itself is sorted, not a copy
CalculateMedianInPlace ==
    /\ pc = "object"
    /\ lastCall' = "calculateMedian"
    /\ ret' = calculateMedian(numbers, sorted)
    /\ numbers' = sorted
    /\ UNCHANGED <<Frame, errors, report>>

CalculateMedian ==
    /\ pc = "object"
    /\ lastCall' = "calculateMedian"
    /\ ret' = calculateMedian(numbers, sorted)
    /\ UNCHANGED <<Frame, numbers, errors, report>>

CalculateStdDev ==
    /\ pc = "object"
    /\ lastCall' = "calculateStdDev"
    /\ ret' = calculateStdDev(numbers)
    /\ UNCHANGED <<Frame, numbers, errors, report>>

FindMode ==
    /\ pc = "object"
    /\ lastCall' = "findMode"
    /\ ret' = findMode(numbers, sorted)
    /\ UNCHANGED <<Frame, numbers, errors, report>>

CalculateQuartiles ==
    /\ pc = "object"
    /\ lastCall' = "calculateQuartiles"
    /\ ret' = calculateQuartiles(numbers, sorted)
    /\ UNCHANGED <<Frame, numbers, errors, report>>

GenerateReport ==
    /\ pc = "object"
    /\ lastCall' = "generateReport"
    /\ ret' = generateReport(numbers, errors, sorted)
    /\ report' = ret'
    /\ UNCHANGED <<Frame, numbers, errors>>

NextStats ==
    \/ CalculateSum
    \/ CalculateAverage
    \/ CalculateMedian
    \/ CalculateStdDev
    \/ FindMode
    \/ CalculateQuartiles
    \/ GenerateReport

SpecStats == InitStats /\ [][NextStats]_vars

(***************************************************************************)
(* Properties                                                              *)
(***************************************************************************)

Labels(rep) == [i \in DOMAIN rep |-> rep[i][1]]

HasLine(rep, label) == \E i \in DOMAIN rep : rep[i][1] = label

ValueOf(rep, label) == rep[CHOOSE i \in DOMAIN rep : rep[i][1] = label][2]

StatSections ==
    <<"Basic Statistics:", "Range Statistics:", "Dispersion Statistics:",
      "Quartile Analysis:", "Sign Analysis:">>

NoNumbersLine == "Error: No valid numbers parsed"

IsTitle(l) ==
    l \in {"Number Analysis Report", "======================",
           "Warnings/Errors:", NoNumbersLine}
          \cup {StatSections[i] : i \in DOMAIN StatSections}

\* the titles of a report, in the order in which they occur in it
Titles(rep) == SelectSeq(Labels(rep), IsTitle)

\* number of occurrences of v in nums
Occurs(nums, v) == Cardinality({i \in DOMAIN nums : nums[i] = v})

\* operator<= of double
LessEq(a, b) == ~IsNaN(a) /\ ~IsNaN(b) /\ a <= b

\* the arrangements of nums in which no element is less than an earlier one
AscendingOrders(nums) ==
    {s \in {Permute(nums, p) : p \in Permutations(DOMAIN nums)} :
        \A i, j \in DOMAIN s : i < j => ~Less(s[j], s[i])}

\* the median read off the arrangement s
MiddleOf(s) ==
    LET n == Len(s)
    IN IF n % 2 = 1 THEN Div(s[n \div 2 + 1], 1)
       ELSE Div(Add(s[n \div 2], s[n \div 2 + 1]), 2)

\* the comma-delimited substrings of s, empty ones included
RECURSIVE SplitComma(_)
SplitComma(s) ==
    IF \A i \in DOMAIN s : s[i] # "," THEN <<s>>
    ELSE LET c == CHOOSE i \in DOMAIN s :
                      s[i] = "," /\ \A j \in 1..(i - 1) : s[j] # ","
         IN <<SubSeq(s, 1, c - 1)>> \o SplitComma(SubSeq(s, c + 1, Len(s)))

RECURSIVE AcceptedValues(_)
AcceptedValues(toks) ==
    IF toks = <<>> THEN <<>>
    ELSE LET r == stod(Trim(Head(toks)))
         IN (IF r.status = "ok" THEN <<r.value>> ELSE <<>>)
            \o AcceptedValues(Tail(toks))

RECURSIVE RejectedMsgs(_)
RejectedMsgs(toks) ==
    IF toks = <<>> THEN <<>>
    ELSE LET tok == Trim(Head(toks))
             r == stod(tok)
         IN (IF r.status = "invalid_argument" THEN <<InvalidMsg(tok)>>
             ELSE IF r.status = "out_of_range" THEN <<OutOfRangeMsg(tok)>>
             ELSE <<>>)
            \o RejectedMsgs(Tail(toks))

\* the token as a whole is a number: optional sign, digits, optional exponent
WholeNumber(tok) ==
    LET d == IF tok # <<>> /\ tok[1] = "-" THEN 2 ELSE 1
        e == DigitsEnd(tok, d)
    IN /\ e > d
       /\ \/ e = Len(tok) + 1
          \/ e = Len(tok) /\ tok[e] = "e999"

InRange(tok) == \A i \in DOMAIN tok : tok[i] # "e999"

\* C1: with the argument present, main ends with exit code 1, the parse
\* errors on the diagnostic stream and nothing on standard output if and only
\* if no number was parsed; otherwise it ends with exit code 0 and the full
\* report on standard output, with a Warnings/Errors section whenever a token
\* was rejected.  With the argument missing it ends with exit code 1 after the
\* usage message and never parses.
C1_ExitContract ==
    /\ argc < 2 =>
          /\ pc \in {"main", "exit"}
          /\ numbers = <<>> /\ errors = <<>> /\ ss = <<>> /\ stdout = <<>>
          /\ pc = "exit" => exitCode = 1 /\ stderr = <<Usage>>
    /\ (argc >= 2 /\ pc = "exit") =>
          /\ numbers = <<>> <=>
                /\ exitCode = 1
                /\ stdout = <<>>
                /\ stderr = << <<"Error parsing input: ">> >> \o errors
          /\ numbers # <<>> =>
                /\ exitCode = 0
                /\ stderr = <<>>
                /\ \A i \in DOMAIN StatSections : HasLine(stdout, StatSections[i])
                /\ ~HasLine(stdout, NoNumbersLine)
                /\ errors # <<>> =>
                      /\ HasLine(stdout, "Warnings/Errors:")
                      /\ \A i \in DOMAIN errors :
                            \E j \in DOMAIN stdout : stdout[j] = errors[i]

C1_Witness ==
    /\ pc = "exit" /\ argc >= 2
    /\ numbers # <<>> /\ errors # <<>>
    /\ exitCode = 0 /\ HasLine(stdout, "Warnings/Errors:")

\* C2: parsing "" and parsing "," each yield an empty NumberList and a
\* non-empty ErrorLog, and parse reports failure.
C2_EmptyInputsFail ==
    (pc = "exit" /\ argc >= 2 /\ input \in {<<>>, <<",">>}) =>
        /\ numbers = <<>>
        /\ errors # <<>>
        /\ exitCode = 1

\* C3: parse processes every comma-delimited substring of the argument, the
\* empty ones included, exactly once and in order: after parse the number of
\* values plus the number of messages is the number of those substrings,
\* NumberList is the values of the accepted ones and ErrorLog the messages
\* of the rejected ones, in input order.
C3_EveryTokenOnce ==
    (pc = "exit" /\ argc >= 2) =>
        LET toks == SplitComma(input)
        IN /\ Len(numbers) + Len(errors) = Len(toks)
           /\ numbers = AcceptedValues(toks)
           /\ errors = RejectedMsgs(toks)

\* C7: an iteration of parse appends a value only when the trimmed token as
\* a whole is a number in range; a token that is not a number adds no value
\* and appends "Invalid number: <token>"; a number out of range adds no value
\* and appends "Number out of range: <token>".
C7_OnlyWholeNumbers ==
    [][(pc = "parse" /\ pc' = "parse") =>
          LET tok == number'
          IN /\ numbers' # numbers => WholeNumber(tok) /\ InRange(tok)
             /\ ~WholeNumber(tok) =>
                   /\ numbers' = numbers
                   /\ errors' = Append(errors, InvalidMsg(tok))
             /\ (WholeNumber(tok) /\ ~InRange(tok)) =>
                   /\ numbers' = numbers
                   /\ errors' = Append(errors, OutOfRangeMsg(tok))]_vars

\* C4: for a non-empty NumberList the result of calculateMedian is the same
\* for every permutation of the list: the middle element of the ascending
\* order when the count is odd, the average of the two middle elements when
\* it is even.
C4_MedianPermutationInvariant ==
    (lastCall = "calculateMedian" /\ numbers # <<>>) =>
        /\ \A p \in Permutations(DOMAIN numbers) :
              \A s \in SortOutcomes(Permute(numbers, p)) :
                  calculateMedian(Permute(numbers, p), s) = ret
        /\ \E s \in AscendingOrders(numbers) : ret = MiddleOf(s)

\* C5: for a non-empty NumberList findMode returns a value of the list of
\* maximum frequency, the smallest of the values of that frequency; when all
\* values are distinct it returns the minimum.
C5_ModeSmallestMostFrequent ==
    (lastCall = "findMode" /\ numbers # <<>>) =>
        /\ \E i \in DOMAIN numbers : numbers[i] = ret
        /\ \A i \in DOMAIN numbers :
              /\ Occurs(numbers, numbers[i]) <= Occurs(numbers, ret)
              /\ Occurs(numbers, numbers[i]) = Occurs(numbers, ret)
                    => ~Less(numbers[i], ret)
        /\ (\A i \in DOMAIN numbers : Occurs(numbers, numbers[i]) = 1)
              => \A i \in DOMAIN numbers : ~Less(numbers[i], ret)

\* C6: calculateQuartiles returns (0, 0, 0) when Count < 4, and for Count
\* n >= 4 the elements at indices n/4, n/2 and 3n/4 of the ascending order,
\* all three indices inside 0..n-1.
C6_Quartiles ==
    lastCall = "calculateQuartiles" =>
        LET n == Len(numbers)
        IN IF n < 4 THEN ret = <<0, 0, 0>>
           ELSE /\ \E s \in AscendingOrders(numbers) :
                      ret = <<s[n \div 4 + 1], s[n \div 2 + 1],
                              s[(3 * n) \div 4 + 1]>>
                /\ \A k \in 1..3 : QuartileIdx(n)[k] \in 0..(n - 1)

\* C8: a report has its sections in the fixed order header, Warnings/Errors,
\* then the five statistics sections; the Warnings/Errors section is present
\* if and only if ErrorLog is non-empty and then lists every entry in order;
\* with an empty NumberList the report ends with "Error: No valid numbers
\* parsed" and has no statistics section; otherwise the five statistics
\* sections are each present once and that line is absent.
C8_ReportSections ==
    lastCall = "generateReport" =>
        LET k == Len(errors)
        IN /\ Titles(ret) =
                 <<"Number Analysis Report", "======================">>
                 \o (IF errors # <<>> THEN <<"Warnings/Errors:">> ELSE <<>>)
                 \o (IF numbers = <<>> THEN <<NoNumbersLine>> ELSE StatSections)
           /\ errors # <<>> =>
                 /\ ret[3] = <<"Warnings/Errors:">>
                 /\ SubSeq(ret, 4, 3 + k) = errors
           /\ numbers = <<>> => ret[Len(ret)] = <<NoNumbersLine>>

C8_Witness ==
    /\ lastCall = "generateReport"
    /\ pc = "object"
    /\ numbers = <<>>
    /\ Len(errors) = 2
    /\ Len(ret) = 6

\* C9: no statistics operation and no call of generateReport changes
\* NumberList or ErrorLog, and a report generated again from the same parsed
\* state is the same report.
C9_ReadOnlyAfterParse ==
    [][pc = "object" =>
          /\ numbers' = numbers
          /\ errors' = errors
          /\ (report # <<>> /\ lastCall' = "generateReport") => report' = report]_vars

C9_Witness ==
    /\ pc = "object"
    /\ lastCall = "calculateMedian"
    /\ report # <<>>
    /\ Len(numbers) >= 3
    /\ numbers # sorted

\* C10: with Count >= 4 the reported values satisfy Minimum <= Q1 <= Q2 <=
\* Q3 <= Maximum, 0 <= IQR <= Range; for a non-empty NumberList the three
\* sign counts add up to Count.
C10_QuartileOrderAndSigns ==
    (lastCall = "generateReport" /\ numbers # <<>>) =>
        LET q1 == ValueOf(ret, "  Q1 (25th percentile): ")
            q2 == ValueOf(ret, "  Q2 (50th percentile): ")
            q3 == ValueOf(ret, "  Q3 (75th percentile): ")
            iqr == ValueOf(ret, "  IQR: ")
            lo == ValueOf(ret, "  Minimum: ")
            hi == ValueOf(ret, "  Maximum: ")
            range == ValueOf(ret, "  Range: ")
            count == ValueOf(ret, "  Count: ")
        IN /\ count = Len(numbers)
           /\ count >= 4 =>
                 /\ LessEq(lo, q1) /\ LessEq(q1, q2)
                 /\ LessEq(q2, q3) /\ LessEq(q3, hi)
                 /\ LessEq(0, iqr) /\ LessEq(iqr, range)
           /\ ValueOf(ret, "  Positive: ") + ValueOf(ret, "  Negative: ")
                 + ValueOf(ret, "  Zero: ") = count

====
